---- MODULE Spec2Model ----
(***************************************************************************)
(* CopyQ clipboard monitor (src/src/clipboardmonitor.cpp), X11 build.      *)
(*                                                                         *)
(* The monitor is a single-threaded Qt process.  Its handlers are the      *)
(* slots connected in the constructor: checkClipboard (QClipboard changed),*)
(* readyRead and quit (socket), updateTimeout (500ms debounce timer) and   *)
(* updateSelection (100ms selection-guard timer).  checkClipboard for the  *)
(* selection calls QApplication::processEvents(), so other handlers can    *)
(* run nested inside it; the model keeps a stack of the evaluations that   *)
(* are suspended in processEvents().                                       *)
(*                                                                         *)
(* hash, cloneData, clipboardData, setClipboardData, readMessage and       *)
(* writeMessage live in client_server.cpp, which is not part of the        *)
(* sources at hand; they are modelled from the specification.              *)
(***************************************************************************)
EXTENDS Integers, Sequences, FiniteSets, TLC

\* -------------------------------------------------------------------------
\* Bounds of the model
\* -------------------------------------------------------------------------
MaxExt == 2      \* changes other applications make to the buffers
MaxMsgs == 2     \* frames the server sends

\* -------------------------------------------------------------------------
\* Values
\* -------------------------------------------------------------------------
Clipboard == "Clipboard"
Selection == "Selection"
Modes == {Clipboard, Selection}
Other(mode) == IF mode = Clipboard THEN Selection ELSE Clipboard

\* Format names are strings of characters; a payload of 0 means the format
\* is absent from the data.
Text == <<"t">>
Image == <<"i">>
Formats == {Text, Image}
Payloads == 0..2
MimeData == [Formats -> Payloads]
Data(t, i) == [f \in Formats |-> IF f = Text THEN t ELSE i]
NoData == Data(0, 0)
FormatsOf(data) == {f \in Formats : data[f] # 0}

\* Contents other applications put into a buffer.
ExtInputs == {Data(1, 0), Data(1, 1), Data(0, 1), Data(2, 1)}
\* Contents the server pushes.
PushInputs == {Data(1, 0), Data(2, 1)}

Some(x) == <<x>>
None == <<>>

Range(seq) == {seq[i] : i \in 1..Len(seq)}

\* -------------------------------------------------------------------------
\* client_server.cpp helpers
\* -------------------------------------------------------------------------
\* restrict(snapshot, formatSet): the entries whose names are in the list,
\* the whole snapshot for an empty list.
Restrict(data, formats) ==
    IF formats = <<>> THEN data
    ELSE [f \in Formats |-> IF f \in Range(formats) THEN data[f] ELSE 0]

\* fingerprint of the data restricted to the formats; 0 for no data.
Hash(data, formats) ==
    LET r == Restrict(data, formats) IN r[Text] + 3 * r[Image]

\* cloneData(data, &formats) / cloneData(data)
CloneDataFormats(data, formats) == Restrict(data, formats)
CloneData(data) == data

\* -------------------------------------------------------------------------
\* setFormats: list.split(QRegExp("[;,\\s]+"))
\* -------------------------------------------------------------------------
IsDelim(ch) == ch \in {";", ",", " "}

RECURSIVE SplitFrom(_, _, _)
SplitFrom(str, cur, inDelim) ==
    IF str = <<>> THEN <<cur>>
    ELSE IF IsDelim(Head(str))
         THEN IF inDelim THEN SplitFrom(Tail(str), cur, TRUE)
              ELSE <<cur>> \o SplitFrom(Tail(str), <<>>, TRUE)
         ELSE SplitFrom(Tail(str), Append(cur, Head(str)), FALSE)

Split(str) == SplitFrom(str, <<>>, FALSE)

\* -------------------------------------------------------------------------
\* Messages of the server
\* -------------------------------------------------------------------------
SettingsKeys == {"_last_hash", "formats", "check_clipboard", "copy_clipboard",
                 "copy_selection", "check_selection"}

NoSettings == [k \in SettingsKeys |-> None]
Setting(k, v) == [NoSettings EXCEPT ![k] = Some(v)]
Contains(settings, k) == settings[k] # None
Value(settings, k) == settings[k][1]
KeysOf(settings) == {k \in SettingsKeys : Contains(settings, k)}

FormatStrings == { <<"t", ";", "i">>, <<";", "i">> }
FlagKeys == {"check_clipboard", "copy_clipboard", "copy_selection", "check_selection"}
ConfigKeys == FlagKeys \cup {"formats"}

AllOn(fmt) == [k \in SettingsKeys |->
                 IF k = "_last_hash" THEN None
                 ELSE IF k = "formats" THEN Some(fmt) ELSE Some(TRUE)]

\* Both buffers watched, none mirrored.
WatchOnly(fmt) == [AllOn(fmt) EXCEPT !["copy_clipboard"] = Some(FALSE),
                                     !["copy_selection"] = Some(FALSE)]

\* The whole configuration (with and without _last_hash) and partial updates.
SettingsInputs ==
    {AllOn(<<"t">>), [AllOn(<<"t">>) EXCEPT !["_last_hash"] = Some(1)],
     WatchOnly(<<"t">>)}
    \cup {Setting("formats", s) : s \in FormatStrings}
    \cup {Setting(k, FALSE) : k \in {"check_clipboard", "check_selection"}}

\* ok: the frame can be read to completion; settings: the map carried under
\* application/x-copyq-settings, if any; data: the item's other data.
SettingsMsg(m) == [ok |-> TRUE, settings |-> Some(m), data |-> NoData]
PushMsg(d) == [ok |-> TRUE, settings |-> None, data |-> d]
BadMsg == [ok |-> FALSE, settings |-> None, data |-> NoData]
\* An item with no data at all: a push of empty content.
EmptyPush == PushMsg(NoData)

Messages == {SettingsMsg(m) : m \in SettingsInputs}
            \cup {PushMsg(d) : d \in PushInputs}
            \cup {EmptyPush, BadMsg}

\* What one channel-readable notification finds buffered.
Drains == {<<m>> : m \in Messages} \cup {<<m, n>> : m \in Messages, n \in Messages}

\* -------------------------------------------------------------------------
\* State
\* -------------------------------------------------------------------------
VARIABLES
    m_formats,       \* QStringList of accepted format names
    m_newdata,       \* pending push: None (NULL) or Some(data)
    m_checkclip, m_copyclip, m_checksel, m_copysel,
    m_lastHash,
    updateTimer,     \* m_updateTimer->isActive()
    x11Timer,        \* PrivateX11::m_timer.isActive()
    m_dsp,           \* PrivateX11::m_dsp # NULL
    signalsBlocked,  \* m_socket->signalsBlocked()
    connected,       \* the server's end of the channel is open
    quit,            \* quit() / exit() was called
    clip,            \* content of each buffer
    owns,            \* ownsClipboard() / ownsSelection()
    osEvents,        \* pending QClipboard::changed(mode) signals, oldest first
    keyHeld,         \* button 1 or shift is held
    inbound,         \* bytesAvailable(): frames buffered in the socket
    stack,           \* callers of the checkClipboard(Selection) calls that are
                     \* inside processEvents(), outermost first
    extLeft, msgsLeft,
    log,             \* what the last handler did, in order
    accepted         \* a change was accepted since startup (an observed
                     \* change or an applied push set m_lastHash)

vars == <<m_formats, m_newdata, m_checkclip, m_copyclip, m_checksel, m_copysel,
          m_lastHash, updateTimer, x11Timer, m_dsp, signalsBlocked, connected,
          quit, clip, owns, osEvents, keyHeld, inbound, stack, extLeft,
          msgsLeft, log, accepted>>

St == [m_formats |-> m_formats, m_newdata |-> m_newdata,
       m_checkclip |-> m_checkclip, m_copyclip |-> m_copyclip,
       m_checksel |-> m_checksel, m_copysel |-> m_copysel,
       m_lastHash |-> m_lastHash, updateTimer |-> updateTimer,
       x11Timer |-> x11Timer, m_dsp |-> m_dsp,
       signalsBlocked |-> signalsBlocked, connected |-> connected,
       quit |-> quit, clip |-> clip, owns |-> owns, osEvents |-> osEvents,
       keyHeld |-> keyHeld, inbound |-> inbound, stack |-> stack,
       extLeft |-> extLeft, msgsLeft |-> msgsLeft, log |-> <<>>,
       accepted |-> accepted]

Commit(t) ==
    /\ m_formats' = t.m_formats
    /\ m_newdata' = t.m_newdata
    /\ m_checkclip' = t.m_checkclip
    /\ m_copyclip' = t.m_copyclip
    /\ m_checksel' = t.m_checksel
    /\ m_copysel' = t.m_copysel
    /\ m_lastHash' = t.m_lastHash
    /\ updateTimer' = t.updateTimer
    /\ x11Timer' = t.x11Timer
    /\ m_dsp' = t.m_dsp
    /\ signalsBlocked' = t.signalsBlocked
    /\ connected' = t.connected
    /\ quit' = t.quit
    /\ clip' = t.clip
    /\ owns' = t.owns
    /\ osEvents' = t.osEvents
    /\ keyHeld' = t.keyHeld
    /\ inbound' = t.inbound
    /\ stack' = t.stack
    /\ extLeft' = t.extLeft
    /\ msgsLeft' = t.msgsLeft
    /\ log' = t.log
    /\ accepted' = t.accepted


\* -------------------------------------------------------------------------
\* Record of what a handler does (not program state)
\* -------------------------------------------------------------------------
\* op: "send" (clipboardChanged), "write" (setClipboardData), "read"
\* (clipboardData), "noread" (clipboardData returned NULL), "guard"
\* (waitForKeyRelease), "settings", "defer" (push stored), "readfail", "quit".
\* F: the accepted formats in force; flag: for send, read and write, whether
\* the monitor owned the buffer just before; for guard, the value returned.
\* why, for a write: "push" (push applied on arrival), "forced" (pending push
\* applied by updateTimeout), "mirror" (copy of an observed change); for
\* settings: "bootstrap" when _last_hash was adopted as last-seen.
Entry(s, op, mode, data, flag, keys, why) ==
    [op |-> op, mode |-> mode, data |-> data, F |-> Range(s.m_formats),
     flag |-> flag, keys |-> keys, why |-> why]

Log(s, e) == [s EXCEPT !.log = Append(@, e)]

Enqueue(q, mode) == IF mode \in Range(q) THEN q ELSE Append(q, mode)

\* -------------------------------------------------------------------------
\* Collaborators
\* -------------------------------------------------------------------------
\* setClipboardData(data, mode): the process becomes the owner of the buffer
\* and the clipboard reports the change.
setClipboardData(s, data, mode, why) ==
    [Log(s, Entry(s, "write", mode, data, s.owns[mode], {}, why))
        EXCEPT !.clip[mode] = data,
               !.owns[mode] = TRUE,
               !.osEvents = Enqueue(@, mode)]

clipboardChanged(s, mode, data) ==
    Log(s, Entry(s, "send", mode, data, s.owns[mode], {}, ""))

\* -------------------------------------------------------------------------
\* PrivateX11::waitForKeyRelease; dspOk: XOpenDisplay succeeds
\* -------------------------------------------------------------------------
waitForKeyRelease(s, dspOk) ==
    IF s.x11Timer
    THEN [st |-> Log(s, Entry(s, "guard", Selection, NoData, TRUE, {}, "armed")),
          ret |-> TRUE]
    ELSE IF ~s.m_dsp /\ ~dspOk
    THEN [st |-> Log(s, Entry(s, "guard", Selection, NoData, FALSE, {}, "nodisplay")),
          ret |-> FALSE]
    ELSE LET s1 == [s EXCEPT !.m_dsp = TRUE] IN
         IF s.keyHeld
         THEN [st |-> [Log(s1, Entry(s, "guard", Selection, NoData, TRUE, {}, "held"))
                          EXCEPT !.x11Timer = TRUE],
               ret |-> TRUE]
         ELSE [st |-> Log(s1, Entry(s, "guard", Selection, NoData, FALSE, {}, "free")),
               ret |-> FALSE]

\* -------------------------------------------------------------------------
\* ClipboardMonitor::checkClipboard, up to processEvents()
\* -------------------------------------------------------------------------
\* go: the evaluation goes on to read the buffer.
CheckHead(s, mode, dspOk) ==
    IF mode = Clipboard
    THEN [st |-> s,
          go |-> ~((~s.m_checkclip /\ ~s.m_copyclip) \/ s.owns[Clipboard])]
    ELSE IF (~s.m_checksel /\ ~s.m_copysel) \/ s.owns[Selection]
         THEN [st |-> s, go |-> FALSE]
         ELSE LET w == waitForKeyRelease(s, dspOk)   \* updateSelection(false)
              IN [st |-> w.st, go |-> ~w.ret]

\* Mutant of CheckTail: the fingerprint of an accepted change is not stored.
CheckTailForgets(s, mode, readOk) ==
    IF ~readOk
    THEN Log(s, Entry(s, "noread", mode, NoData, s.owns[mode], {}, ""))
    ELSE
    LET data == s.clip[mode]
        s1 == Log(s, Entry(s, "read", mode, data, s.owns[mode], {}, ""))
        cloned == CloneDataFormats(data, s.m_formats)
        check == IF mode = Clipboard THEN s.m_checkclip ELSE s.m_checksel
        copy == IF mode = Clipboard THEN s.m_copyclip ELSE s.m_copysel
        s3 == IF check THEN clipboardChanged(s1, mode, CloneData(cloned)) ELSE s1
        s4 == IF copy
              THEN setClipboardData(s3, CloneData(cloned), Other(mode), "mirror")
              ELSE s3
    IN IF s.m_lastHash = Hash(data, s.m_formats) THEN s1
       ELSE IF FormatsOf(cloned) = {} THEN s1
       ELSE s4

\* Mutant of CheckTail: the data is sent and mirrored with all its formats.
CheckTailUnfiltered(s, mode, readOk) ==
    IF ~readOk
    THEN Log(s, Entry(s, "noread", mode, NoData, s.owns[mode], {}, ""))
    ELSE
    LET data == s.clip[mode]
        s1 == Log(s, Entry(s, "read", mode, data, s.owns[mode], {}, ""))
        newHash == Hash(data, s.m_formats)
        s2 == [s1 EXCEPT !.m_lastHash = newHash, !.accepted = TRUE]
        check == IF mode = Clipboard THEN s.m_checkclip ELSE s.m_checksel
        copy == IF mode = Clipboard THEN s.m_copyclip ELSE s.m_copysel
        s3 == IF check THEN clipboardChanged(s2, mode, CloneData(data)) ELSE s2
        s4 == IF copy
              THEN setClipboardData(s3, CloneData(data), Other(mode), "mirror")
              ELSE s3
    IN IF s.m_lastHash = newHash THEN s1
       ELSE IF FormatsOf(data) = {} THEN s1
       ELSE s4

\* Mutant of CheckTail: the notification is sent without testing the watch
\* flag (as the build without X11 does).
CheckTailSendsAlways(s, mode, readOk) ==
    IF ~readOk
    THEN Log(s, Entry(s, "noread", mode, NoData, s.owns[mode], {}, ""))
    ELSE
    LET data == s.clip[mode]
        s1 == Log(s, Entry(s, "read", mode, data, s.owns[mode], {}, ""))
        newHash == Hash(data, s.m_formats)
        cloned == CloneDataFormats(data, s.m_formats)
        s2 == [s1 EXCEPT !.m_lastHash = newHash, !.accepted = TRUE]
        copy == IF mode = Clipboard THEN s.m_copyclip ELSE s.m_copysel
        s3 == clipboardChanged(s2, mode, CloneData(cloned))
        s4 == IF copy
              THEN setClipboardData(s3, CloneData(cloned), Other(mode), "mirror")
              ELSE s3
    IN IF s.m_lastHash = newHash THEN s1
       ELSE IF FormatsOf(cloned) = {} THEN s1
       ELSE s4

\* Mutant of CheckTail: the copy is written to the buffer that was read, not
\* to the other one.
CheckTailMirrorsSame(s, mode, readOk) ==
    IF ~readOk
    THEN Log(s, Entry(s, "noread", mode, NoData, s.owns[mode], {}, ""))
    ELSE
    LET data == s.clip[mode]
        s1 == Log(s, Entry(s, "read", mode, data, s.owns[mode], {}, ""))
        newHash == Hash(data, s.m_formats)
        cloned == CloneDataFormats(data, s.m_formats)
        s2 == [s1 EXCEPT !.m_lastHash = newHash, !.accepted = TRUE]
        check == IF mode = Clipboard THEN s.m_checkclip ELSE s.m_checksel
        copy == IF mode = Clipboard THEN s.m_copyclip ELSE s.m_copysel
        s3 == IF check THEN clipboardChanged(s2, mode, CloneData(cloned)) ELSE s2
        s4 == IF copy
              THEN setClipboardData(s3, CloneData(cloned), mode, "mirror")
              ELSE s3
    IN IF s.m_lastHash = newHash THEN s1
       ELSE IF FormatsOf(cloned) = {} THEN s1
       ELSE s4

\* ClipboardMonitor::checkClipboard, from clipboardData(mode) on
CheckTail(s, mode, readOk) ==
    IF ~readOk
    THEN Log(s, Entry(s, "noread", mode, NoData, s.owns[mode], {}, ""))
    ELSE
    LET data == s.clip[mode]
        s1 == Log(s, Entry(s, "read", mode, data, s.owns[mode], {}, ""))
        newHash == Hash(data, s.m_formats)
        cloned == CloneDataFormats(data, s.m_formats)
        s2 == [s1 EXCEPT !.m_lastHash = newHash, !.accepted = TRUE]
        check == IF mode = Clipboard THEN s.m_checkclip ELSE s.m_checksel
        copy == IF mode = Clipboard THEN s.m_copyclip ELSE s.m_copysel
        s3 == IF check THEN clipboardChanged(s2, mode, CloneData(cloned)) ELSE s2
        s4 == IF copy
              THEN setClipboardData(s3, CloneData(cloned), Other(mode), "mirror")
              ELSE s3
    IN IF s.m_lastHash = newHash THEN s1
       ELSE IF FormatsOf(cloned) = {} THEN s1
       ELSE s4

\* checkClipboard(mode) when processEvents() finds nothing to dispatch
checkClipboard(s, mode, dspOk, readOk) ==
    LET h == CheckHead(s, mode, dspOk)
    IN IF h.go THEN CheckTail(h.st, mode, readOk) ELSE h.st

\* checkClipboard(QClipboard::Clipboard): no processEvents() on this path
checkClipboardClip(s, readOk) == checkClipboard(s, Clipboard, TRUE, readOk)

\* -------------------------------------------------------------------------
\* ClipboardMonitor::updateClipboard
\* -------------------------------------------------------------------------
FormatList(data) ==
    (IF data[Text] # 0 THEN <<Text>> ELSE <<>>)
    \o (IF data[Image] # 0 THEN <<Image>> ELSE <<>>)

\* Mutant of updateClipboard: a push that arrives while another is pending is
\* dropped instead of replacing it.
updateClipboardKeepsFirst(s, data, force) ==
    LET kept == IF ~force /\ s.updateTimer /\ s.m_newdata # None
                THEN s.m_newdata ELSE Some(data)
        s1 == [s EXCEPT !.m_newdata = kept]
    IN
    IF ~force /\ s.updateTimer
    THEN Log(s1, Entry(s, "defer", Clipboard, data, FALSE, {}, ""))
    ELSE LET why == IF force THEN "forced" ELSE "push"
             s2 == [s1 EXCEPT !.m_lastHash = Hash(data, FormatList(data)),
                              !.accepted = TRUE]
             s3 == setClipboardData(s2, data, Clipboard, why)
             s4 == setClipboardData(s3, CloneData(data), Selection, why)
         IN [s4 EXCEPT !.m_newdata = None, !.updateTimer = TRUE]

\* Mutant of updateClipboard: the selection gets the copy only when
\* copy_clipboard is set.
updateClipboardMirrorsIfSet(s, data, force) ==
    LET s1 == [s EXCEPT !.m_newdata = Some(data)] IN
    IF ~force /\ s.updateTimer
    THEN Log(s1, Entry(s, "defer", Clipboard, data, FALSE, {}, ""))
    ELSE LET why == IF force THEN "forced" ELSE "push"
             s2 == [s1 EXCEPT !.m_lastHash = Hash(data, FormatList(data)),
                              !.accepted = TRUE]
             s3 == setClipboardData(s2, data, Clipboard, why)
             s4 == IF s.m_copyclip
                   THEN setClipboardData(s3, CloneData(data), Selection, why)
                   ELSE s3
         IN [s4 EXCEPT !.m_newdata = None, !.updateTimer = TRUE]

updateClipboard(s, data, force) ==
    LET s1 == [s EXCEPT !.m_newdata = Some(data)] IN
    IF ~force /\ s.updateTimer
    THEN Log(s1, Entry(s, "defer", Clipboard, data, FALSE, {}, ""))
    ELSE LET why == IF force THEN "forced" ELSE "push"
             s2 == [s1 EXCEPT !.m_lastHash = Hash(data, FormatList(data)),
                              !.accepted = TRUE]
             s3 == setClipboardData(s2, data, Clipboard, why)
             s4 == setClipboardData(s3, CloneData(data), Selection, why)
         IN [s4 EXCEPT !.m_newdata = None, !.updateTimer = TRUE]

\* Mutant of updateTimeout: the pending push is discarded, not applied.
updateTimeoutDrops(s) == [s EXCEPT !.updateTimer = FALSE, !.m_newdata = None]

\* Mutant of updateTimeout: the slot does nothing; the pending push stays
\* stored after the timer has stopped.
updateTimeoutKeeps(s) == [s EXCEPT !.updateTimer = FALSE]

\* ClipboardMonitor::updateTimeout; the single-shot timer has stopped
updateTimeout(s) ==
    LET s1 == [s EXCEPT !.updateTimer = FALSE] IN
    IF s.m_newdata # None THEN updateClipboard(s1, s.m_newdata[1], TRUE) ELSE s1

\* -------------------------------------------------------------------------
\* ClipboardMonitor::readyRead
\* -------------------------------------------------------------------------
\* Mutant of applySettings: the flags are read without contains(), an absent
\* key reads as false.
applySettingsResets(s, settings) ==
    LET adopt == s.m_lastHash = 0 /\ Contains(settings, "_last_hash")
        s0 == Log(s, Entry(s, "settings", Clipboard, NoData, FALSE, KeysOf(settings),
                           IF adopt THEN "bootstrap" ELSE ""))
        flag(k) == Contains(settings, k) /\ Value(settings, k)
    IN [s0 EXCEPT
        !.m_lastHash = IF adopt THEN Value(settings, "_last_hash") ELSE @,
        !.m_formats = IF Contains(settings, "formats")
                      THEN Split(Value(settings, "formats")) ELSE @,
        !.m_checkclip = flag("check_clipboard"),
        !.m_copyclip = flag("copy_clipboard"),
        !.m_copysel = flag("copy_selection"),
        !.m_checksel = flag("check_selection")]

\* The part of readyRead that applies a settings map
applySettings(s, settings) ==
    LET adopt == s.m_lastHash = 0 /\ Contains(settings, "_last_hash")
        s0 == Log(s, Entry(s, "settings", Clipboard, NoData, FALSE, KeysOf(settings),
                           IF adopt THEN "bootstrap" ELSE ""))
    IN [s0 EXCEPT
        !.m_lastHash = IF adopt THEN Value(settings, "_last_hash") ELSE @,
        !.m_formats = IF Contains(settings, "formats")
                      THEN Split(Value(settings, "formats")) ELSE @,
        !.m_checkclip = IF Contains(settings, "check_clipboard")
                        THEN Value(settings, "check_clipboard") ELSE @,
        !.m_copyclip = IF Contains(settings, "copy_clipboard")
                       THEN Value(settings, "copy_clipboard") ELSE @,
        !.m_copysel = IF Contains(settings, "copy_selection")
                      THEN Value(settings, "copy_selection") ELSE @,
        !.m_checksel = IF Contains(settings, "check_selection")
                       THEN Value(settings, "check_selection") ELSE @]

Suspend(s, caller) == [s EXCEPT !.stack = Append(@, caller)]

\* The while loop of readyRead.  It ends when nothing is buffered (signals
\* unblocked), when a frame cannot be read (return, signals left blocked) or
\* is interrupted where checkClipboard(Selection) enters processEvents().
RECURSIVE drain(_, _, _)
\* Mutant of drain: a settings message only stores the configuration; the
\* buffers are evaluated at the next clipboard event.
drainStoresOnly(s, dspOk, readOk) ==
    IF s.inbound = <<>> THEN [s EXCEPT !.signalsBlocked = FALSE]
    ELSE LET msg == Head(s.inbound)
             s1 == [s EXCEPT !.inbound = Tail(@)]
         IN IF ~msg.ok
            THEN Log(s1, Entry(s, "readfail", Clipboard, NoData, FALSE, {}, ""))
            ELSE IF msg.settings # None
            THEN drain(applySettings(s1, msg.settings[1]), dspOk, readOk)
            ELSE drain(updateClipboard(s1, CloneData(msg.data), FALSE), dspOk, readOk)

drain(s, dspOk, readOk) ==
    IF s.inbound = <<>> THEN [s EXCEPT !.signalsBlocked = FALSE]
    ELSE LET msg == Head(s.inbound)
             s1 == [s EXCEPT !.inbound = Tail(@)]
         IN IF ~msg.ok
            THEN Log(s1, Entry(s, "readfail", Clipboard, NoData, FALSE, {}, ""))
            ELSE IF msg.settings # None
            THEN LET s2 == applySettings(s1, msg.settings[1])
                     h == CheckHead(s2, Selection, dspOk)
                 IN IF h.go THEN Suspend(h.st, "settings")
                    ELSE drain(checkClipboardClip(h.st, readOk), dspOk, readOk)
            ELSE drain(updateClipboard(s1, CloneData(msg.data), FALSE), dspOk, readOk)

readyRead(s, dspOk, readOk) ==
    drain([s EXCEPT !.signalsBlocked = TRUE], dspOk, readOk)

\* processEvents() returns into checkClipboard(Selection); then its caller
\* goes on.
resume(s, dspOk, readOk) ==
    LET caller == s.stack[Len(s.stack)]
        s1 == [s EXCEPT !.stack = SubSeq(@, 1, Len(@) - 1)]
        s2 == CheckTail(s1, Selection, readOk)
    IN IF caller = "settings"
       THEN drain(checkClipboardClip(s2, readOk), dspOk, readOk)
       ELSE s2

\* slot of QClipboard::changed(mode)
onChanged(s, dspOk, readOk) ==
    LET mode == Head(s.osEvents)
        s1 == [s EXCEPT !.osEvents = Tail(@)]
        h == CheckHead(s1, Selection, dspOk)
    IN IF mode = Clipboard THEN checkClipboardClip(s1, readOk)
       ELSE IF h.go THEN Suspend(h.st, "changed") ELSE h.st

\* Mutant of updateSelection: the slot of the guard timer only polls the
\* guard (check = false) and leaves the evaluation to the next event.
updateSelectionPollsOnly(s, dspOk) ==
    waitForKeyRelease([s EXCEPT !.x11Timer = FALSE], dspOk).st

\* ClipboardMonitor::updateSelection(true), slot of the guard timer
updateSelection(s, dspOk) ==
    LET s1 == [s EXCEPT !.x11Timer = FALSE]
        w == waitForKeyRelease(s1, dspOk)
        h == CheckHead(w.st, Selection, dspOk)
    IN IF w.ret THEN w.st
       ELSE IF h.go THEN Suspend(h.st, "timer") ELSE h.st

\* -------------------------------------------------------------------------
\* Actions
\* -------------------------------------------------------------------------
\* The event loop has returned (or exit(1) was called in the constructor).
Exited == quit /\ stack = <<>>

Init ==
    /\ m_formats = <<>>
    /\ m_newdata = None
    /\ m_checkclip = FALSE /\ m_copyclip = FALSE
    /\ m_checksel = FALSE /\ m_copysel = FALSE
    /\ m_lastHash = 0
    /\ updateTimer = FALSE
    /\ x11Timer = FALSE
    /\ m_dsp = FALSE
    /\ signalsBlocked = FALSE
    /\ connected \in BOOLEAN          \* waitForConnected(2000)
    /\ quit = ~connected              \* exit(1)
    /\ clip = [m \in Modes |-> NoData]
    /\ owns = [m \in Modes |-> FALSE]
    /\ osEvents = <<>>
    /\ keyHeld = FALSE
    /\ inbound = <<>>
    /\ stack = <<>>
    /\ extLeft = MaxExt
    /\ msgsLeft = MaxMsgs
    /\ log = <<>>
    /\ accepted = FALSE

\* QClipboard::changed(mode) is delivered.
ClipboardChanged ==
    /\ ~Exited
    /\ osEvents # <<>>
    /\ \E dspOk \in BOOLEAN, readOk \in BOOLEAN :
         Commit(onChanged(St, dspOk, readOk))

\* processEvents() returns to the innermost suspended evaluation.
ProcessEventsReturn ==
    /\ stack # <<>>
    /\ \E dspOk \in BOOLEAN, readOk \in BOOLEAN :
         Commit(resume(St, dspOk, readOk))

\* The socket signals readyRead; it has buffered one of the drains.
ReadyReadFrom(drains) ==
    /\ ~Exited
    /\ connected
    /\ ~signalsBlocked
    /\ \E msgs \in drains, dspOk \in BOOLEAN, readOk \in BOOLEAN :
         /\ Len(msgs) <= msgsLeft
         /\ Commit(readyRead([St EXCEPT !.inbound = @ \o msgs,
                                        !.msgsLeft = @ - Len(msgs)],
                             dspOk, readOk))

ReadyRead == ReadyReadFrom(Drains)

\* More data reaches the socket while a drain is inside processEvents().
ArriveFrom(messages) ==
    /\ connected
    /\ "settings" \in Range(stack)
    /\ msgsLeft > 0
    /\ \E m \in messages :
         Commit([St EXCEPT !.inbound = Append(@, m), !.msgsLeft = @ - 1])

Arrive == ArriveFrom(Messages)

\* The debounce timer fires.
UpdateTimeout ==
    /\ ~Exited
    /\ updateTimer
    /\ Commit(updateTimeout(St))

\* The selection-guard timer fires.
X11Timeout ==
    /\ ~Exited
    /\ x11Timer
    /\ \E dspOk \in BOOLEAN :
         Commit(updateSelection(St, dspOk))

\* The server closes the channel; disconnected() is connected to quit().
Disconnect ==
    /\ ~Exited
    /\ connected
    /\ Commit(IF signalsBlocked
              THEN [St EXCEPT !.connected = FALSE]
              ELSE [Log(St, Entry(St, "quit", Clipboard, NoData, FALSE, {}, ""))
                      EXCEPT !.connected = FALSE, !.quit = TRUE])

\* Another application sets a buffer.
ExternalChange ==
    /\ ~Exited
    /\ extLeft > 0
    /\ \E mode \in Modes, d \in ExtInputs :
         Commit([St EXCEPT !.clip[mode] = d, !.owns[mode] = FALSE,
                           !.osEvents = Enqueue(@, mode), !.extLeft = @ - 1])

KeyPress ==
    /\ ~Exited
    /\ ~keyHeld
    /\ Commit([St EXCEPT !.keyHeld = TRUE])

KeyRelease ==
    /\ ~Exited
    /\ keyHeld
    /\ Commit([St EXCEPT !.keyHeld = FALSE])

Next ==
    \/ ClipboardChanged
    \/ ProcessEventsReturn
    \/ ReadyRead
    \/ Arrive
    \/ UpdateTimeout
    \/ X11Timeout
    \/ Disconnect
    \/ ExternalChange
    \/ KeyPress
    \/ KeyRelease

Spec == Init /\ [][Next]_vars

\* The event loop fires an active debounce timer.  The server sends pushes
\* and the whole configuration, one frame more than under Spec, so that a
\* pending push can be replaced by a later one; nobody touches button 1 or
\* the shift key, so the selection guard never defers.
PushMessages == {PushMsg(d) : d \in PushInputs} \cup {SettingsMsg(AllOn(<<"t">>))}
PushDrains == {<<m>> : m \in PushMessages}
              \cup {<<m, n>> : m \in PushMessages, n \in PushMessages}

ReadyReadPush == ReadyReadFrom(PushDrains)
ArrivePush == ArriveFrom(PushMessages)

PushNext ==
    \/ ClipboardChanged
    \/ ProcessEventsReturn
    \/ ReadyReadPush
    \/ ArrivePush
    \/ UpdateTimeout
    \/ Disconnect
    \/ ExternalChange

PushInit ==
    /\ m_formats = <<>>
    /\ m_newdata = None
    /\ m_checkclip = FALSE /\ m_copyclip = FALSE
    /\ m_checksel = FALSE /\ m_copysel = FALSE
    /\ m_lastHash = 0
    /\ updateTimer = FALSE
    /\ x11Timer = FALSE
    /\ m_dsp = FALSE
    /\ signalsBlocked = FALSE
    /\ connected = TRUE
    /\ quit = FALSE
    /\ clip = [m \in Modes |-> NoData]
    /\ owns = [m \in Modes |-> FALSE]
    /\ osEvents = <<>>
    /\ keyHeld = FALSE
    /\ inbound = <<>>
    /\ stack = <<>>
    /\ extLeft = MaxExt - 1
    /\ msgsLeft = MaxMsgs + 1
    /\ log = <<>>
    /\ accepted = FALSE

FairSpec == PushInit /\ [][PushNext]_vars /\ WF_vars(UpdateTimeout)

\* The event loop fires an armed guard timer.  The server sends the whole
\* configuration or a push, one frame at a time; the user presses and
\* releases button 1 or shift at will.
GuardMessages == {SettingsMsg(AllOn(<<"t">>)), PushMsg(Data(1, 0))}
GuardDrains == {<<m>> : m \in GuardMessages}

ReadyReadGuard == ReadyReadFrom(GuardDrains)

GuardNext ==
    \/ ClipboardChanged
    \/ ProcessEventsReturn
    \/ ReadyReadGuard
    \/ UpdateTimeout
    \/ X11Timeout
    \/ Disconnect
    \/ ExternalChange
    \/ KeyPress
    \/ KeyRelease

GuardSpec == PushInit /\ [][GuardNext]_vars /\ WF_vars(X11Timeout)

\* -------------------------------------------------------------------------
\* Reading the record of a handler
\* -------------------------------------------------------------------------
IsSend(e) == e.op = "send"
IsPushWrite(e) == e.op = "write" /\ e.why \in {"push", "forced"}
IsPrimaryPushWrite(e) == IsPushWrite(e) /\ e.mode = Clipboard
IsMirrorWrite(e) == e.op = "write" /\ e.why = "mirror"

Sends(l) == SelectSeq(l, IsSend)
Clear(s) == [s EXCEPT !.log = <<>>]
Watched(s, mode) == IF mode = Clipboard THEN s.m_checkclip ELSE s.m_checksel
Restricted(s, mode) == Restrict(s.clip[mode], s.m_formats)

\* -------------------------------------------------------------------------
\* C1
\* -------------------------------------------------------------------------
\* The guard lets an evaluation of the buffer through.
GuardFree(s, mode) == mode = Selection => (~s.x11Timer /\ ~s.keyHeld)

C1_Pre(s, mode) ==
    /\ Watched(s, mode)
    /\ ~s.owns[mode]
    /\ GuardFree(s, mode)
    /\ FormatsOf(Restricted(s, mode)) # {}
    /\ Hash(s.clip[mode], s.m_formats) # s.m_lastHash

\* C1: in every reachable state where a buffer is watched, not owned, its
\* content restricted to the accepted formats is not empty and its
\* fingerprint differs from last-seen, a run of checkClipboard for it sends
\* exactly one notification (the restricted content) and sets last-seen; a
\* second run right after it, for any content with the same restriction,
\* sends nothing and changes no state.
C1_DedupIdempotent ==
    \A mode \in Modes, dspOk \in BOOLEAN :
        C1_Pre(St, mode) =>
            LET s1 == checkClipboard(St, mode, dspOk, TRUE)
            IN /\ Len(Sends(s1.log)) = 1
               /\ Sends(s1.log)[1].mode = mode
               /\ Sends(s1.log)[1].data = Restricted(St, mode)
               /\ s1.m_lastHash = Hash(St.clip[mode], St.m_formats)
               /\ \A d \in MimeData :
                    Restrict(d, St.m_formats) = Restricted(St, mode) =>
                        LET s1b == [Clear(s1) EXCEPT !.clip[mode] = d]
                            s2 == checkClipboard(s1b, mode, dspOk, TRUE)
                        IN /\ Sends(s2.log) = <<>>
                           /\ Clear(s2) = s1b

\* The first run has just sent the notification and a further change event
\* for the same buffer, with the same restricted content, waits to be handled.
C1_Witness ==
    \E mode \in Modes :
        /\ \E i \in 1..Len(log) :
              IsSend(log[i]) /\ log[i].mode = mode
                             /\ log[i].data = Restricted(St, mode)
        /\ mode \in Range(osEvents)
        /\ Watched(St, mode)
        /\ ~owns[mode]
        /\ GuardFree(St, mode)
        /\ Hash(clip[mode], m_formats) = m_lastHash
        /\ clip[mode] # Restricted(St, mode)

\* -------------------------------------------------------------------------
\* C2
\* -------------------------------------------------------------------------
\* C2 as stated: of two pushes P1, P2 handled before the timer P1 started
\* has fired, only P2's content is ever written to the primary buffer; so no
\* drain writes P1's content and then stores a different P2.
C2_OneWriteForPair ==
    \A i \in 1..Len(log), j \in 1..Len(log) :
        (i < j /\ IsPrimaryPushWrite(log[i]) /\ log[i].why = "push"
               /\ log[j].op = "defer")
            => log[j].data = log[i].data

\* C2 amended: a push handled with no timer running is written at once and
\* starts the timer; a push handled while the timer runs is stored, not
\* written, and is written to the primary buffer exactly once, by the timer's
\* expiry, unless a later push has replaced it.
C2_Debounce ==
    [][ /\ \A j \in 1..Len(log') :
              log'[j].op = "defer" =>
                  \/ updateTimer
                  \/ \E i \in 1..(j - 1) : IsPrimaryPushWrite(log'[i])
        /\ (m_newdata' # None /\ m_newdata' # m_newdata) =>
              /\ updateTimer'
              /\ \E j \in 1..Len(log') :
                    /\ log'[j].op = "defer"
                    /\ log'[j].data = m_newdata'[1]
                    /\ \A k \in (j + 1)..Len(log') : ~IsPushWrite(log'[k])
        /\ (m_newdata # None /\ m_newdata' = None) =>
              /\ SelectSeq(log', IsPrimaryPushWrite)
                    = << [op |-> "write", mode |-> Clipboard,
                          data |-> m_newdata[1], F |-> Range(m_formats),
                          flag |-> owns[Clipboard], keys |-> {},
                          why |-> "forced"] >>
              /\ updateTimer /\ updateTimer'
      ]_vars

\* The timer's expiry has just written a pending push.
C2_Witness ==
    /\ \E i \in 1..Len(log) : IsPrimaryPushWrite(log[i]) /\ log[i].why = "forced"
                               /\ log[i].data = Data(2, 1)
    /\ m_newdata = None
    /\ updateTimer
    /\ clip[Clipboard] = Data(2, 1)

\* -------------------------------------------------------------------------
\* C3
\* -------------------------------------------------------------------------
LastPushEntry(l) ==
    LET idx == {i \in 1..Len(l) : l[i].op = "defer" \/ IsPrimaryPushWrite(l[i])}
    IN IF idx = {} THEN 0 ELSE CHOOSE i \in idx : \A k \in idx : k <= i

\* What the timer's expiry writes is the push received last, and a push
\* stored while the timer runs replaces the one stored before.
C3_Safety ==
    [][ /\ \A i \in 1..Len(log') :
              (IsPushWrite(log'[i]) /\ log'[i].why = "forced")
                  => m_newdata = Some(log'[i].data)
        /\ LET n == LastPushEntry(log')
           IN (n # 0 /\ log'[n].op = "defer") => m_newdata' = Some(log'[n].data)
        /\ LET n == LastPushEntry(log')
           IN (n # 0 /\ log'[n].op = "write")
                  => (m_newdata' = None /\ clip'[Clipboard] = log'[n].data)
      ]_vars

\* C3: the push received last is eventually written to the primary buffer
\* unless the process quits, and no earlier push is written once a later one
\* has been received.
C3_LatestPushWins ==
    /\ C3_Safety
    /\ (m_newdata # None) ~> (m_newdata = None \/ quit)

\* A stored push has just been replaced by a later one.
C3_Witness ==
    \E i \in 1..Len(log), j \in 1..Len(log) :
        /\ i < j
        /\ log[i].op = "defer" /\ log[j].op = "defer"
        /\ log[i].data # log[j].data
        /\ m_newdata = Some(log[j].data)

\* -------------------------------------------------------------------------
\* C4
\* -------------------------------------------------------------------------
\* C4: no notification is sent for a buffer while the monitor owns it (its
\* content then is what the monitor itself wrote last).
C4_NoSelfEcho ==
    \A i \in 1..Len(log) : IsSend(log[i]) => ~log[i].flag

\* -------------------------------------------------------------------------
\* C5
\* -------------------------------------------------------------------------
IsGuard(e, ret) == e.op = "guard" /\ e.flag = ret
\* Evaluating the selection: reading it, notifying it, mirroring it.
IsSelectionEval(e) ==
    \/ (e.op \in {"read", "send"} /\ e.mode = Selection)
    \/ (IsMirrorWrite(e) /\ e.mode = Clipboard)

\* C5: once the guard has reported a selection being formed (its timer is
\* armed), the selection is not read, notified or mirrored before the guard
\* has been polled again and has reported false.
C5_SelectionDeferral ==
    [][ /\ \A i \in 1..Len(log'), k \in 1..Len(log') :
              (i < k /\ IsGuard(log'[i], TRUE) /\ IsSelectionEval(log'[k]))
                  => \E j \in (i + 1)..(k - 1) : IsGuard(log'[j], FALSE)
        /\ x11Timer =>
              \A k \in 1..Len(log') :
                  IsSelectionEval(log'[k])
                      => \E j \in 1..(k - 1) : IsGuard(log'[j], FALSE)
      ]_vars

\* -------------------------------------------------------------------------
\* C6
\* -------------------------------------------------------------------------
Touched(l) == UNION {l[i].keys : i \in 1..Len(l)}

Field(k) ==
    CASE k = "formats" -> m_formats
      [] k = "check_clipboard" -> m_checkclip
      [] k = "copy_clipboard" -> m_copyclip
      [] k = "copy_selection" -> m_copysel
      [] k = "check_selection" -> m_checksel

\* C6: a handler changes a configuration field only if one of the settings
\* messages it handles contains the field's key.
C6_PartialUpdate ==
    [][ \A k \in ConfigKeys : k \notin Touched(log') => Field(k)' = Field(k) ]_vars

\* A message with formats only was handled while all four flags were set.
C6_Witness ==
    /\ \E i \in 1..Len(log) : log[i].op = "settings" /\ log[i].keys = {"formats"}
    /\ Touched(log) = {"formats"}
    /\ m_checkclip /\ m_copyclip /\ m_copysel /\ m_checksel
    /\ m_formats = <<Text, Image>>

\* -------------------------------------------------------------------------
\* C7
\* -------------------------------------------------------------------------
\* C7: with a non-empty list of accepted formats, what is sent to the server
\* or mirrored holds only accepted formats and at least one; a change whose
\* restriction is empty sends nothing and leaves last-seen unchanged.
C7_FormatFilter ==
    /\ \A i \in 1..Len(log) :
          ((IsSend(log[i]) \/ IsMirrorWrite(log[i])) /\ log[i].F # {}) =>
              /\ FormatsOf(log[i].data) \subseteq log[i].F
              /\ FormatsOf(log[i].data) # {}
    /\ \A mode \in Modes :
          (m_formats # <<>> /\ FormatsOf(Restricted(St, mode)) = {}) =>
              LET s1 == CheckTail(St, mode, TRUE)
              IN /\ Len(s1.log) = 1 /\ s1.log[1].op = "read"
                 /\ Clear(s1) = St

\* A notification left out a format of the buffer that is not accepted.
C7_Witness ==
    \E i \in 1..Len(log) :
        /\ IsSend(log[i])
        /\ log[i].F = {Text}
        /\ log[i].data = Data(1, 0)
        /\ clip[log[i].mode] = Data(1, 1)

\* -------------------------------------------------------------------------
\* C8
\* -------------------------------------------------------------------------
\* C8: the socket's signals are blocked only while a drain is running (here:
\* suspended in processEvents()); once a drain has ended, also by a frame
\* that cannot be read, readyRead is delivered again.
C8_KeepsListening ==
    signalsBlocked => "settings" \in Range(stack)

\* -------------------------------------------------------------------------
\* C9
\* -------------------------------------------------------------------------
\* C9: when the channel is disconnected and no handler is running, the
\* process has been told to quit.
C9_ExitOnDisconnect ==
    (~connected /\ stack = <<>>) => quit

\* -------------------------------------------------------------------------
\* C10
\* -------------------------------------------------------------------------
\* C10 as stated: a push is copied to the selection buffer only if selection
\* mirroring (copy_clipboard) is active.
C10_SelectionOnlyIfMirroring ==
    \A i \in 1..Len(log) :
        (IsPushWrite(log[i]) /\ log[i].mode = Selection /\ Touched(log) = {})
            => m_copyclip

\* C10 amended: applying a push writes its content to the primary buffer and
\* then, whatever the mirror flags, to the selection buffer, and sets
\* last-seen from it.
C10_PushApplied ==
    \A i \in 1..Len(log) :
        IsPrimaryPushWrite(log[i]) =>
            /\ i < Len(log)
            /\ IsPushWrite(log[i + 1])
            /\ log[i + 1].mode = Selection
            /\ log[i + 1].data = log[i].data
            /\ (i + 1 = Len(log)) =>
                  /\ clip[Clipboard] = log[i].data
                  /\ clip[Selection] = log[i].data
                  /\ owns[Clipboard] /\ owns[Selection]
                  /\ m_lastHash = Hash(log[i].data, FormatList(log[i].data))
                  /\ m_newdata = None
                  /\ updateTimer

\* A push has just been applied with selection mirroring off.
C10_Witness ==
    /\ Len(log) = 2
    /\ IsPrimaryPushWrite(log[1])
    /\ ~m_copyclip
    /\ clip[Selection] = Data(2, 1)
    /\ m_lastHash = 5

\* -------------------------------------------------------------------------
\* C11
\* -------------------------------------------------------------------------
Mirrored(s, mode) == IF mode = Clipboard THEN s.m_copyclip ELSE s.m_copysel

\* C11 as stated: a change of a buffer whose watch flag is off is ignored
\* whatever the mirror flags are; so a handler that applies no settings makes
\* a mirror write only from a buffer that is watched.
C11_WatchOffIgnored ==
    \A i \in 1..Len(log) :
        (Touched(log) = {} /\ IsMirrorWrite(log[i]))
            => Watched(St, Other(log[i].mode))

\* C11 amended: no notification is sent for a buffer whose watch flag is
\* off; a change of a buffer whose watch flag and mirror flag are both off
\* is ignored entirely (nothing read, sent or written, last-seen unchanged);
\* with the watch flag off and the mirror flag on the change is evaluated.
C11_WatchOff ==
    /\ Touched(log) = {} =>
          \A i \in 1..Len(log) : IsSend(log[i]) => Watched(St, log[i].mode)
    /\ \A mode \in Modes, dspOk \in BOOLEAN, readOk \in BOOLEAN :
          ~Watched(St, mode) =>
              /\ Sends(CheckTail(St, mode, readOk).log) = <<>>
              /\ Sends(checkClipboard(St, mode, dspOk, readOk).log) = <<>>
              /\ ~Mirrored(St, mode) =>
                    checkClipboard(St, mode, dspOk, readOk) = St

\* A change of the unwatched, mirrored clipboard has just been copied to the
\* selection without a notification.
C11_Witness ==
    /\ ~m_checkclip /\ m_copyclip
    /\ Touched(log) = {}
    /\ Sends(log) = <<>>
    /\ \E i \in 1..Len(log) : IsMirrorWrite(log[i]) /\ log[i].mode = Selection
                               /\ log[i].data = clip[Clipboard]
    /\ m_lastHash = Hash(clip[Clipboard], m_formats)

\* -------------------------------------------------------------------------
\* C12
\* -------------------------------------------------------------------------
\* The handler accepts a change: it sends or mirrors an observed change or
\* writes a push.
IsAccept(e) == IsSend(e) \/ e.op = "write"

LastHashInputs == {m \in SettingsInputs : Contains(m, "_last_hash")}

\* C12: a settings message's _last_hash is adopted as last-seen only if no
\* change has been accepted since startup, neither by an earlier handler nor
\* earlier in the same drain; and with nothing accepted yet, a settings
\* message whose _last_hash is the fingerprint (under its formats) of what
\* the buffers hold sends no notification in the re-evaluation it triggers.
C12_Bootstrap ==
    [][ /\ \A j \in 1..Len(log') :
              (log'[j].op = "settings" /\ log'[j].why = "bootstrap") =>
                  /\ ~accepted
                  /\ \A i \in 1..(j - 1) : ~IsAccept(log'[i])
        /\ \A m \in LastHashInputs, dspOk \in BOOLEAN, readOk \in BOOLEAN :
              LET s1 == applySettings(St, m)
                  s2 == checkClipboard(s1, Selection, dspOk, readOk)
                  s3 == checkClipboardClip(s2, readOk)
              IN (/\ ~accepted
                  /\ \A mode \in Modes :
                        Hash(clip[mode], s1.m_formats) = Value(m, "_last_hash"))
                  => Sends(s3.log) = <<>>
      ]_vars

\* -------------------------------------------------------------------------
\* C13
\* -------------------------------------------------------------------------
\* The handler goes on to the next frame of the drain.
IsMessageEntry(e) ==
    \/ e.op \in {"settings", "defer", "readfail"}
    \/ (e.op = "write" /\ e.why = "push")

\* A notification for the clipboard with this content is in the record
\* after position from and before the next frame is handled.
ClipboardSentFirst(l, from, data) ==
    \E i \in (from + 1)..Len(l) :
        /\ IsSend(l[i]) /\ l[i].mode = Clipboard /\ l[i].data = data
        /\ \A k \in (from + 1)..(i - 1) : ~IsMessageEntry(l[k])

CanRead == connected /\ ~signalsBlocked /\ ~Exited /\ msgsLeft > 0

\* readyRead for one settings message, the buffers readable and nothing
\* dispatched by processEvents().
HandleSettings(m, dspOk) ==
    LET r == readyRead([St EXCEPT !.inbound = @ \o <<SettingsMsg(m)>>,
                                  !.msgsLeft = @ - 1], dspOk, TRUE)
    IN IF Len(r.stack) > Len(stack) THEN resume(r, dspOk, TRUE) ELSE r

C13_WitnessResumed ==
    /\ log # <<>> /\ log[1].op = "read" /\ log[1].mode = Selection
    /\ ClipboardSentFirst(log, 0, Restricted(St, Clipboard))
    /\ \E i \in 1..Len(log) : log[i].op = "settings"
    /\ ~owns[Clipboard]

\* -------------------------------------------------------------------------
\* C14
\* -------------------------------------------------------------------------
\* checkClipboard(Selection) returns at its first test.
SelectionUnwanted(s) == (~s.m_checksel /\ ~s.m_copysel) \/ s.owns[Selection]

\* C14: an armed guard timer stops only in its own handler: when the poll
\* still sees the key held the timer is armed again and nothing is
\* evaluated; when it sees the key released checkClipboard(Selection) is
\* run by that handler.  While the process runs and the key stays released,
\* an armed timer eventually fires that way, without a new selection event.
C14_DeferredNotLost ==
    /\ [][ x11Timer =>
              /\ (log' # <<>> /\ log'[1].op = "guard" /\ log'[1].why = "held") =>
                    /\ x11Timer' /\ keyHeld
                    /\ Len(log') = 1 /\ stack' = stack
                    /\ m_lastHash' = m_lastHash /\ clip' = clip
              /\ ~x11Timer' =>
                    /\ ~keyHeld
                    /\ log' # <<>> /\ IsGuard(log'[1], FALSE)
                    /\ \/ SelectionUnwanted(St) /\ Len(log') = 1 /\ stack' = stack
                       \/ /\ ~SelectionUnwanted(St)
                          /\ Len(log') = 2 /\ IsGuard(log'[2], FALSE)
                          /\ stack' = Append(stack, "timer")
        ]_vars
    /\ (x11Timer /\ ~keyHeld) ~> (~x11Timer \/ keyHeld \/ Exited)

\* The guard timer has fired with the key released and the evaluation of the
\* selection it started is inside processEvents().
C14_Witness ==
    /\ stack # <<>> /\ stack[Len(stack)] = "timer"
    /\ ~x11Timer /\ ~keyHeld
    /\ Len(log) = 2 /\ IsGuard(log[1], FALSE) /\ IsGuard(log[2], FALSE)
    /\ Selection \notin Range(osEvents)

\* -------------------------------------------------------------------------
\* C15
\* -------------------------------------------------------------------------
MonitorState == <<m_formats, m_newdata, m_checkclip, m_copyclip, m_checksel,
                  m_copysel, m_lastHash, updateTimer, x11Timer, quit>>

\* The step is processEvents() returning into the suspended evaluation,
\* which goes on to read the selection.
IsReturn(l) == l # <<>> /\ l[1].op \in {"read", "noread"} /\ l[1].mode = Selection

\* C15: between the start and the end of a checkClipboard evaluation (here:
\* while one is inside processEvents()) no handler is dispatched: no change
\* event is consumed, no handler leaves a record, and the monitor's state
\* and its ownership of the buffers stay as they are until the evaluation
\* goes on.
C15_RunToCompletion ==
    [][ stack # <<>> =>
          \/ IsReturn(log')
          \/ /\ log' = <<>>
             /\ MonitorState' = MonitorState
             /\ Len(osEvents') >= Len(osEvents)
             /\ Len(stack') = Len(stack)
             /\ \A mode \in Modes : owns'[mode] => owns[mode]
      ]_vars

\* -------------------------------------------------------------------------
\* C16
\* -------------------------------------------------------------------------
\* C16: in a round that evaluates both buffers the clipboard comes first: no
\* handler sends a notification for the clipboard after the notification for
\* the selection of the same round (no further frame handled in between).
\* Stated for rounds that leave no change event undelivered, so that
\* processEvents() had nothing more to dispatch.
C16_ClipboardFirst ==
    \A i \in 1..Len(log), j \in 1..Len(log) :
        (/\ i < j
         /\ osEvents = <<>>
         /\ IsSend(log[i]) /\ log[i].mode = Selection
         /\ IsSend(log[j]) /\ log[j].mode = Clipboard)
            => \E k \in (i + 1)..(j - 1) : IsMessageEntry(log[k])

\* -------------------------------------------------------------------------
\* C17
\* -------------------------------------------------------------------------
\* C17: when last-seen is the fingerprint set from an applied push (the
\* monitor still holds the other buffer with the pushed content) and the
\* evaluation of a watched buffer reads exactly that content, set by another
\* application, it sends no notification and makes no mirror write,
\* whatever the accepted formats are.
C17_PushDedup ==
    [][ \A mode \in Modes :
          (/\ log' # <<>>
           /\ log'[1].op = "read" /\ log'[1].mode = mode /\ ~log'[1].flag
           /\ Watched(St, mode)
           /\ accepted
           /\ FormatsOf(log'[1].data) # {}
           /\ m_lastHash = Hash(log'[1].data, FormatList(log'[1].data))
           /\ owns[Other(mode)] /\ clip[Other(mode)] = log'[1].data)
              => (Len(log') >= 2 =>
                    /\ ~(IsSend(log'[2]) /\ log'[2].mode = mode)
                    /\ ~(IsMirrorWrite(log'[2]) /\ log'[2].mode = Other(mode)))
      ]_vars

\* -------------------------------------------------------------------------
\* C18
\* -------------------------------------------------------------------------
\* C18: after every handler a stored pending push has the debounce timer
\* running; and when the timer fires with nothing pending (the only way it
\* stops) the handler writes no buffer, records nothing and changes neither
\* last-seen nor the pending push.
C18_NoStrandedPush ==
    [][ /\ m_newdata' # None => updateTimer'
        /\ (updateTimer /\ ~updateTimer') =>
              /\ m_newdata = None /\ m_newdata' = None
              /\ log' = <<>>
              /\ clip' = clip /\ owns' = owns /\ osEvents' = osEvents
              /\ m_lastHash' = m_lastHash
      ]_vars

\* No handler is running, a push is stored and the timer runs.
C18_Witness ==
    /\ m_newdata = Some(Data(2, 1))
    /\ updateTimer
    /\ stack = <<>>
    /\ clip[Clipboard] = Data(1, 0) /\ owns[Clipboard]

\* The timer has fired with nothing pending after a push was applied.
C18_WitnessIdle ==
    /\ ~updateTimer /\ m_newdata = None
    /\ log = <<>>
    /\ owns[Clipboard] /\ owns[Selection]
    /\ clip[Clipboard] = Data(2, 1) /\ clip[Selection] = Data(2, 1)
    /\ m_lastHash = 5

\* -------------------------------------------------------------------------
\* C19
\* -------------------------------------------------------------------------
MaxSettle == 4

\* The event loop delivers the pending change events one after the other,
\* nothing else being dispatched, until none is left (or n were delivered).
RECURSIVE Settle(_, _, _, _)
Settle(s, dspOk, readOk, n) ==
    IF s.osEvents = <<>> \/ n = 0 THEN s
    ELSE LET a == onChanged(s, dspOk, readOk)
             b == IF Len(a.stack) > Len(s.stack) THEN resume(a, dspOk, readOk) ELSE a
         IN Settle(b, dspOk, readOk, n - 1)

\* Nothing is going on: no handler suspended, no event or push pending, no
\* selection being formed.
Quiet(s) ==
    /\ s.stack = <<>> /\ s.osEvents = <<>> /\ s.m_newdata = None
    /\ ~s.x11Timer /\ ~s.keyHeld
    /\ ~(s.quit /\ s.stack = <<>>)

Changed(s, mode, d) ==
    [s EXCEPT !.clip[mode] = d, !.owns[mode] = FALSE, !.osEvents = <<mode>>]

Mirrors(l) == SelectSeq(l, IsMirrorWrite)

\* C19 as stated: with both mirror flags on, one change of a buffer by
\* another application causes at most one mirror write and at most one
\* notification, the event of the mirror write causes nothing more, and the
\* monitor comes to rest with the same restricted content in both buffers.
C19_SameContentAtRest ==
    \A mode \in Modes, d \in ExtInputs, dspOk \in BOOLEAN :
        (Quiet(St) /\ m_copyclip /\ m_copysel) =>
            LET r == Settle(Changed(St, mode, d), dspOk, TRUE, MaxSettle)
            IN /\ Len(Mirrors(r.log)) <= 1 /\ Len(Sends(r.log)) <= 1
               /\ r.osEvents = <<>> /\ r.stack = <<>>
               /\ Restricted(r, Clipboard) = Restricted(r, Selection)

\* C19 amended: the same, but both buffers hold the same restricted content
\* at rest only when the change was accepted and mirrored; a change that is
\* not accepted (it cannot be read, its restricted content is empty or its
\* fingerprint is last-seen) causes no write and no notification.
C19_NoPingPong ==
    \A mode \in Modes, d \in ExtInputs, dspOk \in BOOLEAN, readOk \in BOOLEAN :
        (Quiet(St) /\ m_copyclip /\ m_copysel) =>
            LET r == Settle(Changed(St, mode, d), dspOk, readOk, MaxSettle)
                m == Mirrors(r.log)
            IN /\ Len(m) <= 1 /\ Len(Sends(r.log)) <= 1
               /\ r.osEvents = <<>> /\ r.stack = <<>>
               /\ \A i \in 1..Len(r.log) : r.log[i].op = "write" => IsMirrorWrite(r.log[i])
               /\ Len(m) = 1 =>
                     /\ m[1].mode = Other(mode)
                     /\ r.owns[Other(mode)] /\ ~r.owns[mode]
                     /\ m[1].data = Restrict(d, m_formats)
                     /\ r.m_lastHash = Hash(d, m_formats)
                     /\ Restricted(r, Clipboard) = Restricted(r, Selection)
               /\ Len(m) = 0 =>
                     /\ Sends(r.log) = <<>>
                     /\ r.clip = Changed(St, mode, d).clip
                     /\ r.m_lastHash = m_lastHash

\* The clipboard was changed by another application, copied to the selection
\* and the event of that copy has just been handled without effect.
C19_Witness ==
    /\ m_copyclip /\ m_copysel
    /\ log = <<>> /\ osEvents = <<>> /\ stack = <<>>
    /\ ~updateTimer /\ ~x11Timer
    /\ ~owns[Clipboard] /\ owns[Selection]
    /\ m_formats = <<Text>>
    /\ clip[Clipboard] = Data(1, 1) /\ clip[Selection] = Data(1, 0)
    /\ m_lastHash = 1

====
